---- MODULE Spec2Model ----
(***************************************************************************)
(* larch, the lazy Arch Linux installer: larch.py and config.py.           *)
(*                                                                         *)
(* One run of the program is modelled statement by statement.  The         *)
(* program counter pc = <<line, k>> names the k-th primitive call of the   *)
(* statement that starts at that line of larch.py; <<0, 0>> is a process  *)
(* that has exited.  External programs, the file system and the network    *)
(* answer nondeterministically (exit codes, OSError, URLError, response    *)
(* body).  Text that the code inspects character by character (the disk    *)
(* path, the mirror list) is a sequence of one-character strings; other    *)
(* text is a string.                                                       *)
(***************************************************************************)
EXTENDS Integers, Sequences, FiniteSets, TLC

VARIABLES
    argv,     \* args.chroot of main(): TRUE for `larch.py --chroot`
    config,   \* the config module as `import config` finds it
    pc,       \* <<line, k>>, the next primitive call; <<0, 0>> after exit
    exc,      \* the exception held by the finally block of usb_main
    result,   \* the value of the last evaluated call of the statement
    log,      \* every external effect so far, in order
    mounts,   \* mount points this run has mounted and not unmounted
    exit      \* the process outcome: exit code and what stderr received

vars == <<argv, config, pc, exc, result, log, mounts, exit>>

----------------------------------------------------------------------------
(* Bounds *)

MaxReturnCode == 1      \* external commands exit with 0..MaxReturnCode
MaxLines == 2           \* lines in the body of the mirror list response

----------------------------------------------------------------------------
(* Text helpers *)

None == "<None>"        \* Python's None, distinct from every text below

Digits == {"0", "1", "2", "3", "4", "5", "6", "7", "8", "9"}

RECURSIVE Join(_)
\* ''.join(chars): a string from a sequence of one-character strings
Join(chars) == IF chars = <<>> THEN "" ELSE Head(chars) \o Join(Tail(chars))

RECURSIVE JoinWith(_, _)
\* sep.join(words)
JoinWith(sep, words) ==
    IF words = <<>> THEN ""
    ELSE IF Len(words) = 1 THEN words[1]
    ELSE words[1] \o sep \o JoinWith(sep, Tail(words))

\* Python's `sub in s` on sequences of characters
Contains(sub, s) ==
    \E i \in 1..(Len(s) - Len(sub) + 1) : SubSeq(s, i, i + Len(sub) - 1) = sub

----------------------------------------------------------------------------
(* config.py *)

FIXME    == <<"F", "I", "X", "M", "E">>
DevSda   == <<"/", "d", "e", "v", "/", "s", "d", "a">>
DevNvme  == <<"/", "d", "e", "v", "/", "n", "v", "m", "e", "0", "n", "1">>
DevMmc   == <<"/", "d", "e", "v", "/", "m", "m", "c", "b", "l", "k", "0">>

Disks == {FIXME, DevSda, DevNvme, DevMmc}

SupportedFilesystems == {"ext4", "xfs", "f2fs", "btrfs"}
Filesystems == SupportedFilesystems \cup {"zfs"}

\* config.packages after the module body has run
packages(use_uefi, root_filesystem) ==
    <<"base", "base-devel", "grub", "python", "openssh", "rsync", "vim",
      "intel-ucode">>
    \o (IF use_uefi THEN <<"efibootmgr">> ELSE <<>>)
    \o (IF root_filesystem = "f2fs" THEN <<"f2fs-tools">> ELSE <<>>)
    \o (IF root_filesystem = "btrfs" THEN <<"btrfs-progs">> ELSE <<>>)

services == <<"systemd-timesyncd">>

mirror_static == "http://10.88.88.49/archlinux/$repo/os/$arch"

\* every config module the installer may be run with
Configs ==
    [found : {TRUE},
     mirrorlist : {"generator", "static"},
     disk : Disks,
     root_password : {None, "secret"},
     use_uefi : BOOLEAN,
     root_filesystem : Filesystems,
     hostname : {None, "arch"},
     timezone : {"Asia/Taipei", "UTC"},
     post_chroot : BOOLEAN]

\* `import config` raises ModuleNotFoundError
NoConfig == [found |-> FALSE]

----------------------------------------------------------------------------
(* Values and exceptions *)

Str(text)   == [type |-> "str", value |-> text]
Bytes(data) == [type |-> "bytes", value |-> data]
NoResult    == [type |-> "NoneType", value |-> ""]

\* class CommandOutput(str)
CommandOutput(text) == [type |-> "CommandOutput", value |-> text]

NoExc == [type |-> "", msg |-> "", code |-> 0]

Exception(type, msg) == [type |-> type, msg |-> msg, code |-> 1]

\* raise SystemExit(1)
SystemExitCode(code) == [type |-> "SystemExit", msg |-> "", code |-> code]

\* raise SystemExit(text): the text goes to stderr, the status is 1
SystemExitMsg(text) == [type |-> "SystemExit", msg |-> text, code |-> 1]

----------------------------------------------------------------------------
(* Helpers to mimic shell *)

Unset == "<unset>"      \* a keyword argument the caller did not pass
NoKwds == [input |-> Unset, stdin |-> Unset, stdout |-> Unset,
           stderr |-> Unset]

set_cmd_defaults(kwds) ==
    [kwds EXCEPT
        !.stdin  = IF kwds.input = Unset /\ @ = Unset THEN "DEVNULL" ELSE @,
        !.stdout = IF @ = Unset THEN "PIPE" ELSE @,
        !.stderr = IF @ = Unset THEN "PIPE" ELSE @]

cmd_fail(command, returncode) ==
    Exception("CommandFailure",
              "The command failed with exit code " \o ToString(returncode)
              \o "\n" \o command)

\* shlex.quote: '' for the empty word; a word of letters, digits and
\* @%+=:,./-_ only is left as it is, and every argument of every run() call
\* below (the disk paths of Disks included) is such a word
shlex_quote(arg) == IF arg = "" THEN "''" ELSE arg

RECURSIVE QuoteAll(_)
QuoteAll(args) ==
    IF args = <<>> THEN <<>>
    ELSE <<shlex_quote(Head(args))>> \o QuoteAll(Tail(args))

\* the command line run() prints and reports: ' '.join(shlex.quote(arg) ...)
run_command(args) == JoinWith(" ", QuoteAll(args))

\* echo(what): CommandOutput(what + '\n'); bytes + str is a TypeError
echo(what) ==
    IF what.type \in {"str", "CommandOutput"}
    THEN [ok |-> TRUE, value |-> CommandOutput(what.value \o "\n"),
          exc |-> NoExc]
    ELSE [ok |-> FALSE, value |-> NoResult,
          exc |-> Exception("TypeError", "can't concat str to bytes")]

----------------------------------------------------------------------------
(* Setup code *)

RECURSIVE lstrip_hash(_)
lstrip_hash(line) ==
    IF line # <<>> /\ line[1] = "#" THEN lstrip_hash(Tail(line)) ELSE line

\* the loop with line.lstrip(b'#') in place of line[1:]
RECURSIVE generate_mirrors_lines_lstrip(_)
generate_mirrors_lines_lstrip(file) ==
    IF file = <<>> THEN <<>>
    ELSE <<lstrip_hash(Head(file))>>
         \o generate_mirrors_lines_lstrip(Tail(file))

\* the loop of generate_mirrors over the lines of the response
RECURSIVE generate_mirrors_lines(_)
generate_mirrors_lines(file) ==
    IF file = <<>> THEN <<>>
    ELSE LET line == Head(file)
         IN  <<IF line # <<>> /\ line[1] = "#" THEN Tail(line) ELSE line>>
             \o generate_mirrors_lines(Tail(file))

RECURSIVE BytesJoin(_)
\* b''.join(lines)
BytesJoin(lines) ==
    IF lines = <<>> THEN <<>> ELSE Head(lines) \o BytesJoin(Tail(lines))

generate_mirrors(file) == Bytes(BytesJoin(generate_mirrors_lines(file)))

mirrors_url ==
    "https://www.archlinux.org/mirrorlist"
    \o "?country=TW&protocol=http&protocol=https&ip_version=4"

part(disk, partnum) ==
    IF Contains(<<"n", "v", "m", "e">>, disk)
    THEN disk \o <<"p">> \o <<ToString(partnum)>>
    ELSE disk \o <<ToString(partnum)>>

----------------------------------------------------------------------------
(* Primitive calls of a statement *)

RunCall(args, kwds) ==
    [f |-> "run", args |-> args, command |-> run_command(args),
     check |-> TRUE, kwds |-> kwds, path |-> "", what |-> NoResult,
     exc |-> NoExc]

\* a shell command line is given by its words: the shell splits the line
\* at the blanks, and none of the lines below holds a quote or an operator
ShellCall(words, check, kwds) ==
    [f |-> "shell", args |-> words, command |-> JoinWith(" ", words),
     check |-> check, kwds |-> kwds, path |-> "", what |-> NoResult,
     exc |-> NoExc]

OtherCall(f, path, what, e) ==
    [f |-> f, args |-> <<>>, command |-> "", check |-> FALSE,
     kwds |-> NoKwds, path |-> path, what |-> what, exc |-> e]

ImportCall      == OtherCall("import", "config", NoResult, NoExc)
AssertCall      == OtherCall("assert", "", NoResult, NoExc)
MkdirCall(path) == OtherCall("mkdir", path, NoResult, NoExc)
MirrorsCall     == OtherCall("generate_mirrors", "", NoResult, NoExc)
EchoCall(what)  == OtherCall("echo", "", what, NoExc)
GtCall(path)    == OtherCall("gt", path, NoResult, NoExc)
RshiftCall(path) == OtherCall("rshift", path, NoResult, NoExc)
RaiseCall(e)    == OtherCall("raise", "", NoResult, e)

----------------------------------------------------------------------------
(* usb_main *)

\* the size of the EFI system partition in both boot modes
boot_size_uefi_only == "1G"

boot_typecode == IF config.use_uefi THEN "ef00" ELSE "ef02"
boot_size     == IF config.use_uefi THEN "1G" ELSE "1M"

uefi_message ==
    "UEFI is disabled or unsupported\n"
    \o "Please enable it or set USE_UEFI to False"

\* the statement that starts at `line`, as the sequence of its calls
usb_main(line) ==
    CASE line = 149 -> <<ImportCall>>
      [] line = 152 ->
            <<RunCall(<<"curl", "-OL",
                        "https://github.com/afg984/larch/raw/master/config.py">>,
                      NoKwds)>>
      [] line = 154 -> <<RaiseCall(SystemExitCode(1))>>
      [] line = 156 -> <<AssertCall>>
      [] line = 160 -> <<RunCall(<<"efibootmgr">>, NoKwds)>>
      [] line = 173 ->
            <<RunCall(<<"wipefs", "--all", Join(config.disk)>>, NoKwds)>>
      [] line = 174 ->
            <<ShellCall(<<"sgdisk", Join(config.disk),
                          "--zap-all", "--clear",
                          "--new=1:0:+" \o boot_size,
                          "--typecode=1:" \o boot_typecode,
                          "--largest-new=2", "--typecode=2:8304">>,
                        TRUE, NoKwds)>>
      [] line = 179 ->
            <<RunCall(<<"partprobe", Join(config.disk)>>, NoKwds)>>
      [] line = 183 ->
            <<RunCall(<<"mkfs.fat", "-F32", Join(part(config.disk, 1))>>,
                      NoKwds)>>
      [] line = 185 ->
            <<RunCall(<<"mkfs.btrfs", "-f", Join(part(config.disk, 2))>>,
                      NoKwds)>>
      [] line = 187 ->
            <<RunCall(<<"mkfs.ext4", "-F", Join(part(config.disk, 2))>>,
                      NoKwds)>>
      [] line = 189 ->
            <<RunCall(<<"mkfs.xfs", "-f", Join(part(config.disk, 2))>>,
                      NoKwds)>>
      [] line = 191 ->
            <<RunCall(<<"mkfs.f2fs", "-f", Join(part(config.disk, 2))>>,
                      NoKwds)>>
      [] line = 193 ->
            <<RaiseCall(Exception("Exception",
                                  "unsupported root_filesystem: '"
                                  \o config.root_filesystem \o "'"))>>
      [] line = 198 ->
            <<RunCall(<<"mount", Join(part(config.disk, 2)), "/mnt">>,
                      NoKwds)>>
      [] line = 200 -> <<MkdirCall("/mnt/boot")>>
      [] line = 201 ->
            <<RunCall(<<"mount", Join(part(config.disk, 1)), "/mnt/boot">>,
                      NoKwds)>>
      [] line = 204 ->
            <<MirrorsCall, EchoCall(result), GtCall("/etc/pacman.d/mirrorlist")>>
      [] line = 207 ->
            <<RunCall(<<"pacstrap", "/mnt">>
                      \o packages(config.use_uefi, config.root_filesystem),
                      [NoKwds EXCEPT !.stdout = None])>>
      [] line = 215 ->
            <<ShellCall(<<"genfstab", "-U", "/mnt">>, TRUE, NoKwds),
              RshiftCall("/mnt/etc/fstab")>>
      [] line = 219 ->
            <<EchoCall(Str(config.hostname)), GtCall("/mnt/etc/hostname")>>
      [] line = 222 ->
            <<RunCall(<<"mount", "--bind", "larch.py", "/mnt/root/larch.py">>,
                      NoKwds)>>
      [] line = 223 ->
            <<RunCall(<<"mount", "--bind", "config.py",
                        "/mnt/root/config.py">>, NoKwds)>>
      [] line = 224 ->
            <<ShellCall(<<"arch-chroot", "/mnt", "python",
                          "/root/install.py", "--chroot">>,
                        TRUE,
                        [NoKwds EXCEPT !.stdout = None, !.stderr = None])>>
      [] line = 231 -> <<ShellCall(<<"umount", "-R", "/mnt">>, FALSE, NoKwds)>>

\* the boot mount point made and mounted in legacy mode instead of UEFI
after_root_mount_inverted == IF config.use_uefi THEN 204 ELSE 200

\* after the root mount: if config.use_uefi: mkdir and mount /mnt/boot
after_root_mount == IF config.use_uefi THEN 200 ELSE 204

\* the line of the statement that follows the statement at `line`;
\* 285 is the return to the module level through main()
usb_next(line) ==
    LET format_root ==
            CASE config.root_filesystem = "btrfs" -> 185
              [] config.root_filesystem = "ext4"  -> 187
              [] config.root_filesystem = "xfs"   -> 189
              [] config.root_filesystem = "f2fs"  -> 191
              [] OTHER -> 193
    IN  CASE line = 149 -> 156
          [] line = 152 -> 154
          [] line = 156 -> IF config.use_uefi THEN 160 ELSE 173
          [] line = 160 -> 173
          [] line = 173 -> 174
          [] line = 174 -> 179
          [] line = 179 -> IF config.use_uefi THEN 183 ELSE format_root
          [] line = 183 -> format_root
          [] line \in {185, 187, 189, 191} -> 198
          [] line = 198 -> after_root_mount
          [] line = 200 -> 201
          [] line = 201 -> 204
          [] line = 204 -> 207
          [] line = 207 -> 215
          [] line = 215 -> IF config.hostname # None THEN 219 ELSE 222
          [] line = 219 -> 222
          [] line = 222 -> 223
          [] line = 223 -> 224
          [] line = 224 -> 231
          [] line = 231 -> 285

\* a try block that opens at the format step already
TryBodyFromFormat == 181..228

\* a try block that opens only after the root partition has been mounted
TryBodyAfterMount == 199..228

\* the statements inside `try:` of usb_main, whose exceptions pass through
\* the `finally:` block at line 229
TryBody == 197..228

----------------------------------------------------------------------------
(* chroot_main *)

chroot_main(line) ==
    CASE line = 235 -> <<ImportCall>>
      [] line = 237 ->
            <<ShellCall(<<"ln", "-sf", "/usr/share/zoneinfo/Asia/Taipei",
                          "/etc/localtime">>, TRUE, NoKwds)>>
      [] line = 240 ->
            <<EchoCall(Str("LANG=en_US.UTF-8")), GtCall("/etc/locale.conf")>>
      [] line = 241 ->
            <<EchoCall(Str("en_US.UTF-8 UTF-8")), GtCall("/etc/locale.gen")>>
      [] line = 242 -> <<ShellCall(<<"locale-gen">>, TRUE, NoKwds)>>
      [] line = 245 ->
            <<RunCall(<<"systemctl", "enable">> \o services, NoKwds)>>
      [] line = 248 -> <<ShellCall(<<"mkinitcpio", "-p", "linux">>, TRUE, NoKwds)>>
      [] line = 252 -> <<RunCall(<<"passwd">>, NoKwds)>>
      [] line = 254 ->
            <<RunCall(<<"chpasswd">>,
                      [NoKwds EXCEPT
                          !.input = "root:" \o config.root_password])>>
      [] line = 258 ->
            <<ShellCall(<<"grub-install", "--target=x86_64-efi",
                          "--efi-directory=/boot", "--bootloader-id=arch">>,
                        TRUE, NoKwds)>>
      [] line = 262 ->
            <<RunCall(<<"grub-install", "--target=i386-pc",
                        Join(config.disk)>>, NoKwds)>>
      [] line = 267 ->
            <<ShellCall(<<"grub-mkconfig", "-o", "/boot/grub/grub.cfg">>,
                        TRUE, NoKwds)>>

chroot_next(line) ==
    LET boot_loader == IF config.use_uefi THEN 258 ELSE 262
    IN  CASE line = 235 -> 237
          [] line = 237 -> 240
          [] line = 240 -> 241
          [] line = 241 -> 242
          [] line = 242 -> 245
          [] line = 245 -> 248
          [] line = 248 -> IF config.root_password = None THEN 252 ELSE 254
          [] line \in {252, 254} -> boot_loader
          [] line \in {258, 262} -> 267
          [] line = 267 -> 285

ChrootLines == 234..267

Stmt(line) ==
    IF line \in ChrootLines THEN chroot_main(line) ELSE usb_main(line)

NextLine(line) ==
    IF line \in ChrootLines THEN chroot_next(line) ELSE usb_next(line)

\* the call the program counter is at
Call == Stmt(pc[1])[pc[2]]

----------------------------------------------------------------------------
(* Control flow: main, exceptions, exit *)

Exited == <<0, 0>>
Running == [code |-> -1, stderr |-> ""]

\* how the interpreter ends the process on an exception nobody caught:
\* SystemExit gives its code and prints its text, any other exception
\* prints a traceback and the status is 1
Uncaught(e) ==
    IF e.type = "SystemExit"
    THEN [code |-> e.code, stderr |-> e.msg]
    ELSE [code |-> 1,
          stderr |-> "Traceback (most recent call last):\n"
                     \o e.type \o ": " \o e.msg]

\* main(): except CommandFailure as e: raise SystemExit(str(e))
main_except(e) ==
    IF e.type = "CommandFailure" THEN SystemExitMsg(e.msg) ELSE e

\* run('efibootmgr') without the try/except around it
efibootmgr_except_missing(line, e) == e

\* usb_main(): except CommandFailure around run('efibootmgr')
efibootmgr_except(line, e) ==
    IF line = 160 /\ e.type = "CommandFailure"
    THEN SystemExitMsg(uefi_message)
    ELSE e

\* exception e leaves usb_main()/chroot_main() and main()
Propagate(e) ==
    /\ pc' = Exited
    /\ exc' = NoExc
    /\ exit' = Uncaught(main_except(e))

\* an exception that skips the finally block of usb_main
ThrowPastFinally(e) == Propagate(efibootmgr_except(pc[1], e))

\* exception e is raised by the statement at pc
Throw(e) ==
    IF pc[1] \in TryBody
    THEN /\ pc' = <<231, 1>>
         /\ exc' = e
         /\ UNCHANGED exit
    ELSE Propagate(efibootmgr_except(pc[1], e))

\* the call at pc returned normally
Continue ==
    IF pc[2] < Len(Stmt(pc[1]))
    THEN /\ pc' = <<pc[1], pc[2] + 1>>
         /\ UNCHANGED <<exc, exit>>
    ELSE IF pc[1] = 231 /\ exc # NoExc
    THEN Propagate(exc)
    ELSE /\ pc' = <<NextLine(pc[1]), 1>>
         /\ UNCHANGED <<exc, exit>>

----------------------------------------------------------------------------
(* The world outside the process *)

ReturnCodes == 0..MaxReturnCode

\* lines a mirror list response is made of
ResponseLines ==
    {<<"#", "S", "\n">>, <<"#", "#", "\n">>, <<"S", "\n">>,
     <<"S", "#", "\n">>, <<"\n">>}

Responses ==
    UNION {[1..n -> ResponseLines] : n \in 0..MaxLines}

\* what `genfstab -U /mnt` prints: one entry per mount below /mnt
genfstab(mnt) ==
    (IF "/mnt" \in mnt THEN "UUID=2 / \n" ELSE "")
    \o (IF "/mnt/boot" \in mnt THEN "UUID=1 /boot \n" ELSE "")
    \o (IF "/mnt/root/larch.py" \in mnt THEN "larch.py /root/larch.py \n"
        ELSE "")
    \o (IF "/mnt/root/config.py" \in mnt THEN "config.py /root/config.py \n"
        ELSE "")

\* the mount table after a command has exited with returncode
MountsAfter(call, returncode) ==
    IF returncode # 0 THEN mounts
    ELSE IF call.args[1] = "mount"
    THEN mounts \cup {call.args[Len(call.args)]}
    ELSE IF call.args = <<"umount", "-R", "/mnt">> THEN {}
    ELSE mounts

Effect(op, call, kwds, returncode, text, body) ==
    [op |-> op, argv |-> call.args, command |-> call.command, kwds |-> kwds,
     rc |-> returncode, path |-> call.path, text |-> text, body |-> body]

StmtLines ==
    {149, 152, 154, 156, 160, 173, 174, 179, 183, 185, 187, 189, 191, 193,
     198, 200, 201, 204, 207, 215, 219, 222, 223, 224, 231,
     235, 237, 240, 241, 242, 245, 248, 252, 254, 258, 262, 267}

At(f) == pc[1] \in StmtLines /\ Call.f \in f

----------------------------------------------------------------------------
(* Actions *)

Init ==
    /\ argv \in BOOLEAN
    /\ config \in Configs \cup {NoConfig}
    /\ pc = <<276, 1>>
    /\ exc = NoExc
    /\ result = NoResult
    /\ log = <<>>
    /\ mounts = {}
    /\ exit = Running

\* main(): if args.chroot: chroot_main() else: usb_main()
Main ==
    /\ pc = <<276, 1>>
    /\ pc' = IF argv THEN <<235, 1>> ELSE <<149, 1>>
    /\ UNCHANGED <<argv, config, exc, result, log, mounts, exit>>

\* import config
ImportConfig ==
    /\ At({"import"})
    /\ IF config.found THEN Continue
       ELSE IF pc[1] = 149
       THEN pc' = <<152, 1>> /\ UNCHANGED <<exc, exit>>
       ELSE Throw(Exception("ModuleNotFoundError",
                            "No module named 'config'"))
    /\ UNCHANGED <<argv, config, result, log, mounts>>

\* the assertion compiled away
AssertDiskSkipped ==
    /\ At({"assert"})
    /\ Continue
    /\ UNCHANGED <<argv, config, result, log, mounts>>

\* assert config.disk != 'FIXME'
AssertDisk ==
    /\ At({"assert"})
    /\ IF config.disk # FIXME THEN Continue
       ELSE Throw(Exception("AssertionError", ""))
    /\ UNCHANGED <<argv, config, result, log, mounts>>

\* run() and shell() without `if check and result.returncode != 0`
subprocess_run_unchecked(op, call, returncode) ==
    /\ log' = Append(log, Effect(op, call, set_cmd_defaults(call.kwds),
                                 returncode, "", <<>>))
    /\ mounts' = MountsAfter(call, returncode)
    /\ Continue
    /\ result' = CommandOutput("")

\* run() and shell() that raise on a non-zero exit whatever `check` is
subprocess_run_always_checked(op, call, returncode) ==
    /\ log' = Append(log, Effect(op, call, set_cmd_defaults(call.kwds),
                                 returncode, "", <<>>))
    /\ mounts' = MountsAfter(call, returncode)
    /\ IF returncode # 0
       THEN /\ Throw(cmd_fail(call.command, returncode))
            /\ UNCHANGED result
       ELSE /\ Continue
            /\ result' = CommandOutput("")

\* subprocess.run and what run() and shell() do with its result
subprocess_run(op, call, returncode) ==
    LET kwds == set_cmd_defaults(call.kwds)
        stdout == IF kwds.stdout # "PIPE" THEN None
                  ELSE IF call.args[1] = "genfstab"
                  THEN genfstab(mounts)
                  ELSE ""
    IN  /\ log' = Append(log, Effect(op, call, kwds, returncode, "", <<>>))
        /\ mounts' = MountsAfter(call, returncode)
        /\ IF call.check /\ returncode # 0
           THEN /\ Throw(cmd_fail(call.command, returncode))
                /\ UNCHANGED result
           ELSE /\ Continue
                /\ result' = CommandOutput(stdout)

Run ==
    /\ At({"run"})
    /\ \E returncode \in ReturnCodes : subprocess_run("run", Call, returncode)
    /\ UNCHANGED <<argv, config>>

Shell ==
    /\ At({"shell"})
    /\ \E returncode \in ReturnCodes :
            subprocess_run("shell", Call, returncode)
    /\ UNCHANGED <<argv, config>>

\* os.mkdir('/mnt/boot')
Mkdir ==
    /\ At({"mkdir"})
    /\ \E ok \in BOOLEAN :
        /\ log' = Append(log, Effect("mkdir", Call, NoKwds,
                                     IF ok THEN 0 ELSE 1, "", <<>>))
        /\ IF ok THEN Continue
           ELSE Throw(Exception("FileExistsError", Call.path))
    /\ UNCHANGED <<argv, config, result, mounts>>

\* generate_mirrors(): urlopen, then the loop over the response
GenerateMirrors ==
    /\ At({"generate_mirrors"})
    /\ \/ /\ log' = Append(log, Effect("urlopen", Call, NoKwds, 1, "", <<>>))
          /\ Throw(Exception("URLError", mirrors_url))
          /\ UNCHANGED result
       \/ \E file \in Responses :
            /\ log' = Append(log, Effect("urlopen", Call, NoKwds, 0, "", file))
            /\ result' = generate_mirrors(file)
            /\ Continue
    /\ UNCHANGED <<argv, config, mounts>>

Echo ==
    /\ At({"echo"})
    /\ LET r == echo(Call.what)
       IN  IF r.ok
           THEN result' = r.value /\ Continue
           ELSE UNCHANGED result /\ Throw(r.exc)
    /\ UNCHANGED <<argv, config, log, mounts>>

\* CommandOutput.__gt__ and CommandOutput.__rshift__
Redirect ==
    /\ At({"gt", "rshift"})
    /\ \E ok \in BOOLEAN :
        /\ log' = Append(log, Effect(Call.f, Call, NoKwds,
                                     IF ok THEN 0 ELSE 1, result.value, <<>>))
        /\ IF ok THEN Continue
           ELSE Throw(Exception("OSError", Call.path))
    /\ UNCHANGED <<argv, config, result, mounts>>

\* raise ...
Raise ==
    /\ At({"raise"})
    /\ Throw(Call.exc)
    /\ UNCHANGED <<argv, config, result, log, mounts>>

\* main() returns and the interpreter exits
Exit ==
    /\ pc = <<285, 1>>
    /\ pc' = Exited
    /\ exit' = [code |-> 0, stderr |-> ""]
    /\ UNCHANGED <<argv, config, exc, result, log, mounts>>

Next ==
    \/ Main
    \/ ImportConfig
    \/ AssertDisk
    \/ Run
    \/ Shell
    \/ Mkdir
    \/ GenerateMirrors
    \/ Echo
    \/ Redirect
    \/ Raise
    \/ Exit

Spec == Init /\ [][Next]_vars

----------------------------------------------------------------------------
(* Properties *)

HostRun == ~argv
Finished == pc = Exited

IsCommand(e) == e.op \in {"run", "shell"}
Issued(e, programs) == IsCommand(e) /\ e.argv[1] \in programs
IsUmount(e) == e.op = "shell" /\ e.argv = <<"umount", "-R", "/mnt">>
IsRootMount(e) ==
    Issued(e, {"mount"}) /\ Len(e.argv) = 3 /\ e.argv[3] = "/mnt"

UmountCount == Cardinality({i \in DOMAIN log : IsUmount(log[i])})
MountStepStarted == \E i \in DOMAIN log : IsRootMount(log[i])

FormatPrograms ==
    {"mkfs.fat", "mkfs.btrfs", "mkfs.ext4", "mkfs.xfs", "mkfs.f2fs"}
ProvisioningPrograms ==
    {"wipefs", "sgdisk", "partprobe", "mount"} \cup FormatPrograms

\* C1 as stated: every host-phase run that has ended, whatever the outcome
\* of its steps, has issued `umount -R /mnt` exactly once.
C1_UmountOnceInEveryRun ==
    (HostRun /\ Finished) => UmountCount = 1

\* C1 as amended: a host-phase run never issues `umount -R /mnt` twice; one
\* that has ended has issued it exactly once if it got as far as issuing the
\* root mount command, and not at all if it ended before the mount step.
C1_UmountOnceIfMountStarted ==
    HostRun =>
        /\ UmountCount <= 1
        /\ Finished => UmountCount = (IF MountStepStarted THEN 1 ELSE 0)

\* a host-phase run whose root mount command failed has ended with one unmount
C1_Witness ==
    /\ HostRun /\ Finished
    /\ \E i \in DOMAIN log : IsRootMount(log[i]) /\ log[i].rc # 0
    /\ UmountCount = 1

\* C2: with disk = 'FIXME' the host phase issues no wipe, partitioning,
\* re-probe, formatting or mount command, never gets past the precondition
\* check, and ends with a non-zero exit status, whatever the boot mode and
\* the root filesystem kind.
C2_PlaceholderDiskIssuesNothing ==
    (HostRun /\ config.found /\ config.disk = FIXME) =>
        /\ \A i \in DOMAIN log : ~Issued(log[i], ProvisioningPrograms)
        /\ pc[1] \in {276, 149, 156, 0}
        /\ Finished => exit.code # 0

\* a host-phase run with the placeholder disk has ended with an error
C2_Witness ==
    /\ HostRun /\ config.found /\ config.disk = FIXME
    /\ Finished /\ exit.code # 0 /\ log = <<>>

\* C3: with a root filesystem kind outside {ext4, xfs, f2fs, btrfs} the host
\* phase issues no formatting command (mkfs.fat, mkfs.btrfs, mkfs.ext4,
\* mkfs.xfs, mkfs.f2fs), in UEFI and in legacy mode.
C3_UnsupportedFilesystemFormatsNothing ==
    (HostRun /\ config.found
     /\ config.root_filesystem \notin {"ext4", "xfs", "f2fs", "btrfs"}) =>
        \A i \in DOMAIN log : ~Issued(log[i], FormatPrograms)

FailedCommand(e) == IsCommand(e) /\ ~IsUmount(e) /\ e.rc # 0

\* C4: once a failure-checked command has exited non-zero the pipeline has
\* halted: the only effect after it is the cleanup unmount, the command is
\* not issued a second time, and the process is at the cleanup or has exited;
\* a failure after the mount step started ends with the unmount as the last
\* command, and a failed pacstrap is followed by no fstab or hostname step.
C4_FailureHaltsPipeline ==
    \A i \in DOMAIN log :
        FailedCommand(log[i]) =>
            /\ \A j \in DOMAIN log : j > i => IsUmount(log[j])
            /\ \A j \in DOMAIN log : j # i => log[j].argv # log[i].argv
            /\ pc[1] \in {231, 0}
            /\ (Finished /\ HostRun /\ MountStepStarted) =>
                    (Len(log) = i + 1 /\ IsUmount(log[i + 1]))
            /\ Issued(log[i], {"pacstrap"}) =>
                    \A j \in DOMAIN log :
                        /\ ~Issued(log[j], {"genfstab"})
                        /\ log[j].path \notin {"/mnt/etc/fstab",
                                               "/mnt/etc/hostname"}

\* the boot partition failed to mount; the unmount followed and the run ended
C4_Witness ==
    /\ HostRun /\ Finished /\ Len(log) >= 2
    /\ LET e == log[Len(log) - 1]
       IN  /\ Issued(e, {"mount"}) /\ e.argv[3] = "/mnt/boot" /\ e.rc # 0
    /\ IsUmount(log[Len(log)])
    /\ exit.code # 0

StepPrograms ==
    {"wipefs", "sgdisk", "partprobe", "mount", "pacstrap", "genfstab",
     "arch-chroot", "umount"} \cup FormatPrograms

\* the steps of the run so far: programs run and files written, in order
RECURSIVE StepsOf(_)
StepsOf(effects) ==
    IF effects = <<>> THEN <<>>
    ELSE LET e == Head(effects)
         IN  (IF Issued(e, StepPrograms) THEN <<e.argv[1]>>
              ELSE IF e.op \in {"gt", "rshift"} THEN <<e.path>>
              ELSE <<>>)
             \o StepsOf(Tail(effects))

\* C5 (for a supported root filesystem kind and no file system error, the
\* case most favourable to it): a host-phase run with the disk configured
\* in which every external command exits zero and the mirror list fetch
\* succeeds has run, in this order and with none skipped: wipe, partition,
\* re-probe, format, mount, mirror list written, pacstrap, fstab appended,
\* hostname written if configured, the two bind mounts, arch-chroot, unmount.
C5_SuccessfulRunRunsEveryStep ==
    (/\ HostRun /\ Finished /\ config.found
     /\ config.disk # FIXME
     /\ config.root_filesystem \in {"ext4", "xfs", "f2fs", "btrfs"}
     /\ \A i \in DOMAIN log : log[i].rc = 0) =>
        StepsOf(log) =
            <<"wipefs", "sgdisk", "partprobe">>
            \o (IF config.use_uefi THEN <<"mkfs.fat">> ELSE <<>>)
            \o <<"mkfs." \o config.root_filesystem, "mount">>
            \o (IF config.use_uefi THEN <<"mount">> ELSE <<>>)
            \o <<"/etc/pacman.d/mirrorlist", "pacstrap", "genfstab",
                 "/mnt/etc/fstab">>
            \o (IF config.hostname # None THEN <<"/mnt/etc/hostname">>
                ELSE <<>>)
            \o <<"mount", "mount", "arch-chroot", "umount">>

\* the partition path of C6: 'p' before the number exactly when the device
\* name ends in a digit
ClaimedPart(d, n) ==
    IF d[Len(d)] \in Digits
    THEN d \o <<"p">> \o <<ToString(n)>>
    ELSE d \o <<ToString(n)>>

\* C6: every partition path the host phase passes to a format or mount
\* command is the disk path followed by 'p' and the partition number when
\* the device name ends in a digit, and by the number alone otherwise.
C6_PartitionPathByTrailingDigit ==
    \A i \in DOMAIN log :
        LET e == log[i]
        IN  /\ Issued(e, {"mkfs.fat"}) =>
                    e.argv[3] = Join(ClaimedPart(config.disk, 1))
            /\ Issued(e, FormatPrograms \ {"mkfs.fat"}) =>
                    e.argv[3] = Join(ClaimedPart(config.disk, 2))
            /\ (Issued(e, {"mount"}) /\ e.argv[3] = "/mnt") =>
                    e.argv[2] = Join(ClaimedPart(config.disk, 2))
            /\ (Issued(e, {"mount"}) /\ e.argv[3] = "/mnt/boot") =>
                    e.argv[2] = Join(ClaimedPart(config.disk, 1))

\* C7: with mirrorlist = 'static' the host phase never performs the HTTP
\* GET of the mirror list generator, and what it writes to the mirror list
\* is the configured static mirror.
C7_StaticStrategyNeverFetches ==
    (HostRun /\ config.found /\ config.mirrorlist = "static") =>
        \A i \in DOMAIN log :
            /\ log[i].op # "urlopen"
            /\ (log[i].op = "gt" /\ log[i].path = "/etc/pacman.d/mirrorlist")
                    => log[i].text = mirror_static \o "\n"

\* nothing went wrong in the run: the configuration is there and, for the
\* host phase, valid, and every command, file operation and fetch succeeded
NoFailureOccurred ==
    /\ config.found
    /\ HostRun => /\ config.disk # FIXME
                  /\ config.root_filesystem \in {"ext4", "xfs", "f2fs", "btrfs"}
    /\ \A i \in DOMAIN log : log[i].rc = 0

\* the exit status is non-zero and stderr received a message
ExitedWithMessage == exit.code # 0 /\ exit.stderr # ""

\* C8, second half: a run in which a failure-checked command other than the
\* UEFI probe exited non-zero ends with a non-zero status and a message
\* holding the exit code and the command; so does, with some message, a host
\* run with the placeholder disk or with a failed UEFI probe.
C8_FailureCasesExitWithMessage ==
    Finished =>
        /\ \A i \in DOMAIN log :
              (FailedCommand(log[i]) /\ ~Issued(log[i], {"efibootmgr"})) =>
                  /\ exit.code # 0
                  /\ exit.stderr = "The command failed with exit code "
                                   \o ToString(log[i].rc) \o "\n"
                                   \o log[i].command
        /\ (HostRun /\ config.found /\ config.disk = FIXME)
                => ExitedWithMessage
        /\ (\E i \in DOMAIN log :
                Issued(log[i], {"efibootmgr"}) /\ log[i].rc # 0)
                => ExitedWithMessage

\* C8: a run ends with exit status zero exactly when no failure occurred,
\* and with a non-zero status and a message when a command failed, the disk
\* is the placeholder or the UEFI probe failed.
C8_ExitStatusTellsFailure ==
    /\ Finished => (exit.code = 0 <=> NoFailureOccurred)
    /\ C8_FailureCasesExitWithMessage

\* C9: the one partitioning command makes a new GPT with partition 1 of
\* 1 GiB and type ef00 under UEFI, of 1 MiB and type ef02 under legacy, and
\* partition 2 of the remaining space with type 8304; the root format and
\* the root mount are given partition 2 of the configured disk.
C9_PartitionLayout ==
    /\ Cardinality({i \in DOMAIN log : Issued(log[i], {"sgdisk"})}) <= 1
    /\ \A i \in DOMAIN log :
        LET e == log[i]
            partition2 == {Join(config.disk) \o "2", Join(config.disk) \o "p2"}
        IN  /\ Issued(e, {"sgdisk"}) =>
                e.argv = <<"sgdisk", Join(config.disk), "--zap-all", "--clear",
                           IF config.use_uefi THEN "--new=1:0:+1G"
                           ELSE "--new=1:0:+1M",
                           IF config.use_uefi THEN "--typecode=1:ef00"
                           ELSE "--typecode=1:ef02",
                           "--largest-new=2", "--typecode=2:8304">>
            /\ Issued(e, FormatPrograms \ {"mkfs.fat"}) =>
                e.argv[3] \in partition2
            /\ IsRootMount(e) => e.argv[2] \in partition2

\* a legacy run has partitioned, formatted and mounted the root partition
C9_Witness ==
    /\ HostRun /\ config.found /\ ~config.use_uefi
    /\ \E i \in DOMAIN log : Issued(log[i], {"sgdisk"}) /\ log[i].rc = 0
    /\ \E i \in DOMAIN log : Issued(log[i], FormatPrograms \ {"mkfs.fat"})
    /\ \E i \in DOMAIN log : IsRootMount(log[i]) /\ log[i].rc = 0

\* bytes.splitlines(keepends=True)
RECURSIVE SplitLines(_, _)
SplitLines(data, line) ==
    IF data = <<>> THEN (IF line = <<>> THEN <<>> ELSE <<line>>)
    ELSE IF Head(data) = "\n"
    THEN <<Append(line, "\n")>> \o SplitLines(Tail(data), <<>>)
    ELSE SplitLines(Tail(data), Append(line, Head(data)))

\* the response generate_mirrors() has just read
Fetched == log[Len(log)].body

\* C10: what generate_mirrors returns has as many lines as the response, in
\* the same order; a response line that begins with '#' is the output line
\* with one '#' put in front of it, any other line is the output line.
C10_MirrorListNormalization ==
    pc = <<204, 2>> =>
        /\ result.type = "bytes"
        /\ LET out == SplitLines(result.value, <<>>)
           IN  /\ Len(out) = Len(Fetched)
               /\ \A i \in DOMAIN Fetched :
                    IF Fetched[i][1] = "#"
                    THEN Fetched[i] = <<"#">> \o out[i]
                    ELSE Fetched[i] = out[i]

\* a response with a '##' line and a line without '#' has been normalized
C10_Witness ==
    /\ pc = <<204, 2>>
    /\ \E i, j \in DOMAIN Fetched :
        /\ Len(Fetched[i]) >= 2
        /\ Fetched[i][1] = "#" /\ Fetched[i][2] = "#"
        /\ Fetched[j][1] # "#"
    /\ result.value # <<>>

\* C11: the link the isolated-root phase makes at /etc/localtime points at
\* the zoneinfo entry of the configured timezone.
C11_TimezoneLinkFollowsConfig ==
    (argv /\ config.found) =>
        \A i \in DOMAIN log :
            Issued(log[i], {"ln"}) =>
                log[i].argv = <<"ln", "-sf",
                                "/usr/share/zoneinfo/" \o config.timezone,
                                "/etc/localtime">>

HookCalls == {i \in DOMAIN log : log[i].op = "post_chroot"}

\* C12: an isolated-root run with a post_chroot hook in the configuration
\* that has ended with every step succeeding has called the hook exactly
\* once, as its last step, after grub-mkconfig.
C12_PostChrootHookRunsLast ==
    (argv /\ config.found /\ config.post_chroot
     /\ Finished /\ exit.code = 0) =>
        /\ Cardinality(HookCalls) = 1
        /\ Len(log) \in HookCalls
        /\ Issued(log[Len(log) - 1], {"grub-mkconfig"})

\* the last word of a bind mount is what it makes reachable below /mnt
BoundPaths ==
    {usb_main(line)[1].args[4] : line \in {222, 223}}

\* C13: in a host-phase run that is in the mounted scope, the script the
\* arch-chroot call at the end of that scope runs inside the staging root,
\* and the configuration file next to it, are among the paths the two bind
\* mounts before it make reachable in /mnt/root.
C13_ChrootRunsWhatWasBound ==
    (HostRun /\ config.found /\ pc[1] \in TryBody) =>
        LET chroot == usb_main(224)[1].args
        IN  /\ chroot[1] = "arch-chroot"
            /\ chroot[2] \o chroot[4] \in BoundPaths
            /\ chroot[2] \o "/root/config.py" \in BoundPaths

\* C14: in a host-phase run `umount -R /mnt` is only ever the last effect,
\* so every other command of the run precedes it and none follows it; a run
\* that started the mount step and has ended, whatever failed or succeeded
\* after that, has issued it exactly once.
C14_UmountLastOnceMountStarted ==
    HostRun =>
        /\ \A i \in DOMAIN log : IsUmount(log[i]) => i = Len(log)
        /\ (Finished /\ MountStepStarted) =>
                /\ Cardinality({i \in DOMAIN log : IsUmount(log[i])}) = 1
                /\ IsUmount(log[Len(log)])

\* the mirror list fetch failed; the unmount followed and the run ended
C14_Witness ==
    /\ HostRun /\ Finished /\ Len(log) >= 2
    /\ log[Len(log) - 1].op = "urlopen" /\ log[Len(log) - 1].rc # 0
    /\ IsUmount(log[Len(log)])

\* what stderr receives when the step with effect e is the one that failed
StepFailure(e) ==
    IF IsCommand(e)
    THEN "The command failed with exit code " \o ToString(e.rc) \o "\n"
         \o e.command
    ELSE "Traceback (most recent call last):\n"
         \o (CASE e.op = "mkdir" -> "FileExistsError: " \o e.path
               [] e.op = "urlopen" /\ e.rc # 0 -> "URLError: " \o mirrors_url
               [] e.op = "urlopen" /\ e.rc = 0 ->
                        "TypeError: can't concat str to bytes"
               [] OTHER -> "OSError: " \o e.path)

\* C15: the outcome of a host-phase run that ended after the cleanup unmount
\* is the failure of the step before the unmount, with status 1, whatever
\* the exit code of the unmount was; it is never a failure of the unmount.
C15_UmountExitCodeChangesNothing ==
    (HostRun /\ Finished /\ Len(log) >= 2 /\ IsUmount(log[Len(log)])) =>
        /\ exit.code = 1
        /\ exit.stderr = StepFailure(log[Len(log) - 1])
        /\ exit.stderr # StepFailure(log[Len(log)])

\* the boot mount point could not be made and the unmount exited non-zero
C15_Witness ==
    /\ HostRun /\ Finished /\ Len(log) >= 2
    /\ log[Len(log) - 1].op = "mkdir" /\ log[Len(log) - 1].rc # 0
    /\ IsUmount(log[Len(log)]) /\ log[Len(log)].rc # 0
    /\ exit.code = 1

\* C16: a failed UEFI probe is the last thing a UEFI host-phase run does:
\* no wipe, partition, format or mount command was or will be issued and the
\* process has exited non-zero with the guidance message; a legacy run never
\* issues the probe.
C16_FailedUefiProbeStopsTheRun ==
    (HostRun /\ config.found) =>
        /\ ~config.use_uefi =>
                \A i \in DOMAIN log : ~Issued(log[i], {"efibootmgr"})
        /\ \A i \in DOMAIN log :
                (Issued(log[i], {"efibootmgr"}) /\ log[i].rc # 0) =>
                    /\ config.use_uefi
                    /\ Len(log) = i
                    /\ \A j \in DOMAIN log :
                            ~Issued(log[j], ProvisioningPrograms)
                    /\ Finished
                    /\ exit.code # 0
                    /\ exit.stderr = "UEFI is disabled or unsupported\n"
                            \o "Please enable it or set USE_UEFI to False"

\* the UEFI probe failed and the run ended
C16_Witness ==
    /\ HostRun /\ Finished /\ config.found /\ config.use_uefi
    /\ Len(log) = 1
    /\ Issued(log[1], {"efibootmgr"}) /\ log[1].rc # 0
    /\ exit.code # 0

IsFatFormat(e)  == Issued(e, {"mkfs.fat"})
IsRootFormat(e) == Issued(e, FormatPrograms \ {"mkfs.fat"})
IsBootDir(e)    == e.op = "mkdir" /\ e.path = "/mnt/boot"
IsBootMount(e)  == Issued(e, {"mount"}) /\ e.argv[3] = "/mnt/boot"
Partition1      == {Join(config.disk) \o "1", Join(config.disk) \o "p1"}

\* effect i of the run comes after a successful effect that satisfies P
After(P(_), i) == \E j \in 1..(i - 1) : P(log[j]) /\ log[j].rc = 0

\* C17: a legacy host-phase run never issues mkfs.fat, never makes or mounts
\* /mnt/boot and never mounts partition 1.  In a UEFI run the root format
\* comes after the FAT32 format, /mnt/boot is made and partition 1 mounted
\* on it after the root mount, and the run gets to the mirror list and to
\* pacstrap only after that boot mount.
C17_BootPartitionOnlyUnderUefi ==
    (HostRun /\ config.found) =>
        \A i \in DOMAIN log :
            LET e == log[i]
            IN  IF ~config.use_uefi
                THEN /\ ~IsFatFormat(e) /\ ~IsBootDir(e) /\ ~IsBootMount(e)
                     /\ Issued(e, {"mount"}) => e.argv[2] \notin Partition1
                ELSE /\ IsRootFormat(e) => After(IsFatFormat, i)
                     /\ IsFatFormat(e) => e.argv[3] \in Partition1
                     /\ IsBootDir(e) => After(IsRootMount, i)
                     /\ IsBootMount(e) =>
                            After(IsBootDir, i) /\ e.argv[2] \in Partition1
                     /\ (e.op = "urlopen" \/ Issued(e, {"pacstrap"})) =>
                            After(IsBootMount, i)

\* a UEFI run has formatted and mounted both partitions and gone on
C17_Witness ==
    /\ HostRun /\ config.found /\ config.use_uefi
    /\ \E i \in DOMAIN log :
        /\ log[i].op = "urlopen"
        /\ After(IsBootMount, i) /\ After(IsRootFormat, i)

PasswordCommands ==
    {i \in DOMAIN log : Issued(log[i], {"passwd", "chpasswd"})}

\* C18: in the isolated-root phase passwd is run only when no root password
\* is configured, and then with the caller's console as standard input, not
\* /dev/null and not a pipe; chpasswd is run only when a password is
\* configured, with 'root:<password>' piped to it; a run issues at most one
\* of the two, and exactly one once it is past the root password step.
C18_RootPasswordStep ==
    (argv /\ config.found) =>
        /\ \A i \in DOMAIN log :
            /\ Issued(log[i], {"passwd"}) =>
                /\ config.root_password = None
                /\ log[i].kwds.stdin \notin {"DEVNULL", "PIPE"}
                /\ log[i].kwds.input = Unset
            /\ Issued(log[i], {"chpasswd"}) =>
                /\ config.root_password # None
                /\ log[i].kwds.input = "root:" \o config.root_password
        /\ Cardinality(PasswordCommands) <= 1
        /\ (\E i \in DOMAIN log : Issued(log[i], {"grub-install"})) =>
                Cardinality(PasswordCommands) = 1

\* C20 as stated: `umount -R /mnt` is issued only after this run's own mount
\* of the root partition at /mnt succeeded.
C20_UmountOnlyAfterSuccessfulRootMount ==
    \A i \in DOMAIN log :
        IsUmount(log[i]) =>
            \E j \in 1..(i - 1) : IsRootMount(log[j]) /\ log[j].rc = 0

\* C20 as amended: `umount -R /mnt` is issued only after this run issued
\* its root mount command, whether that command succeeded or failed; a run
\* whose root mount command failed issues the unmount next and then ends.
C20_UmountOnlyAfterRootMountCommand ==
    \A i \in DOMAIN log :
        /\ IsUmount(log[i]) => \E j \in 1..(i - 1) : IsRootMount(log[j])
        /\ (IsRootMount(log[i]) /\ log[i].rc # 0) =>
                /\ pc[1] \in {231, 0}
                /\ Finished => (Len(log) = i + 1 /\ IsUmount(log[i + 1]))

\* the root mount failed, nothing is mounted, and the unmount was issued
C20_Witness ==
    /\ HostRun /\ Len(log) >= 2 /\ mounts = {}
    /\ IsRootMount(log[Len(log) - 1]) /\ log[Len(log) - 1].rc # 0
    /\ IsUmount(log[Len(log)])

====
